---- MODULE Spec2Model ----
(***************************************************************************)
(* Model of the traffic count study app (src/appy.py): a CSV-backed record *)
(* store (load_data / add_entry / clear_data), the hourly aggregation      *)
(* (analyze_data), the random generator (auto_generate_data) and the       *)
(* script pass main(), run by one or two sessions over the same file.      *)
(*                                                                         *)
(* Time is an integer number of seconds; datetime.now() reads `now`.       *)
(***************************************************************************)
EXTENDS Integers, Sequences, FiniteSets, TLC

----------------------------------------------------------------------------
(* Program constants.                                                      *)

RECORDS_PER_ANALYSIS == 24
AUTO_INTERVAL_SECONDS == 10
HIGH_TRAFFIC_THRESHOLD == 50

(* Bounds of the model.                                                    *)

MaxTime == 22
MaxRuns == 2
MaxSnap == 3

Sessions == {1, 2}

----------------------------------------------------------------------------
(* Text of a CSV field: a non-negative integer is written as its decimal   *)
(* digits and read back by parsing them.                                   *)

RECURSIVE to_text(_)
to_text(n) == IF n < 10 THEN <<n>> ELSE Append(to_text(n \div 10), n % 10)

RECURSIVE parse_int(_)
parse_int(t) ==
    IF Len(t) = 0 THEN 0
    ELSE 10 * parse_int(SubSeq(t, 1, Len(t) - 1)) + t[Len(t)]

(* A timestamp is written as its calendar fields (day, hour, minute,       *)
(* second) and pd.to_datetime rebuilds the timestamp from them.            *)

format_time(t) ==
    << to_text(t \div 86400), to_text((t \div 3600) % 24),
       to_text((t \div 60) % 60), to_text(t % 60) >>

to_datetime(x) ==
    parse_int(x[1]) * 86400 + parse_int(x[2]) * 3600
        + parse_int(x[3]) * 60 + parse_int(x[4])

(* datetime.strftime('%Y-%m-%d'): the text of the calendar day.            *)
strftime_date(t) == to_text(t \div 86400)

(* .dt.hour                                                                *)
dt_hour(t) == (t \div 3600) % 24

----------------------------------------------------------------------------
(* Data frames.  A frame is [rows, timeDtype]; a row of the base frame is  *)
(* [Date, Time, Cars, Bicycles, Pedestrians] with Date kept as text.       *)

EmptyFrame == [rows |-> <<>>, timeDtype |-> "object"]

(* The file: absent, or a header row followed by text rows.                *)
NoFile == [exists |-> FALSE, lines |-> <<>>]

to_csv_row(r) ==
    [Date |-> r.Date, Time |-> format_time(r.Time), Cars |-> to_text(r.Cars),
     Bicycles |-> to_text(r.Bicycles), Pedestrians |-> to_text(r.Pedestrians)]

(* df.to_csv(CSV_FILE, index=False)                                        *)
to_csv(df) ==
    [exists |-> TRUE, lines |-> [i \in 1..Len(df.rows) |-> to_csv_row(df.rows[i])]]

(* pd.read_csv: Date stays text, the counts are parsed as integers and     *)
(* Time is still text.                                                     *)
read_csv_row(l) ==
    [Date |-> l.Date, Time |-> l.Time, Cars |-> parse_int(l.Cars),
     Bicycles |-> parse_int(l.Bicycles), Pedestrians |-> parse_int(l.Pedestrians)]

(* load_data: returns the frame and the file as load_data leaves it (a     *)
(* missing file is created with the header only).                          *)
load_data(f) ==
    IF f.exists
    THEN [df |-> [rows |-> [i \in 1..Len(f.lines) |->
                      [read_csv_row(f.lines[i]) EXCEPT !.Time = to_datetime(@)]],
                  timeDtype |-> "datetime64"],
          file |-> f]
    ELSE [df |-> EmptyFrame, file |-> to_csv(EmptyFrame)]

(* The new_entry frame of add_entry, built at time t.                      *)
new_entry_row(t, cars, bicycles, pedestrians) ==
    [Date |-> strftime_date(t), Time |-> t, Cars |-> cars,
     Bicycles |-> bicycles, Pedestrians |-> pedestrians]


(* Variant of concat: the new row is put in front of the frame.            *)
concat_front(df, row) ==
    [rows |-> <<row>> \o df.rows, timeDtype |-> "datetime64"]

(* pd.concat([df, new_entry], ignore_index=True)                           *)
concat(df, row) ==
    [rows |-> Append(df.rows, row), timeDtype |-> "datetime64"]


(* Variant of add_entry_write: the file is read again when writing, so the *)
(* read and the rewrite are one step.                                      *)
add_entry_write_reread(df, f, row) ==
    to_csv(concat([rows |-> [i \in 1..Len(f.lines) |->
                      [read_csv_row(f.lines[i]) EXCEPT !.Time = to_datetime(@)]],
                   timeDtype |-> "datetime64"], row))

(* The second half of add_entry: concat onto the frame loaded earlier and  *)
(* rewrite the whole file.  f is the file as it is at the time of writing. *)
add_entry_write(df, f, row) == to_csv(concat(df, row))


(* Variant of clear_data: the file is reported cleared but not removed.    *)
clear_data_keep(f) ==
    IF f.exists THEN [file |-> f, msg |-> "cleared"]
    ELSE [file |-> f, msg |-> "no_file"]

(* clear_data: removes the file if it exists; msg is the banner shown.     *)
clear_data(f) ==
    IF f.exists THEN [file |-> NoFile, msg |-> "cleared"]
    ELSE [file |-> f, msg |-> "no_file"]

----------------------------------------------------------------------------
(* analyze_data.                                                           *)

Raised(exc, df) == [status |-> "raised", exc |-> exc, df |-> df]


(* Variant of with_total: the sum is added to a Total column already there.*)
with_total_accumulate(r) ==
    ("Total" :> ((IF "Total" \in DOMAIN r THEN r.Total ELSE 0)
                    + r.Cars + r.Bicycles + r.Pedestrians)) @@ r

(* df['Total'] = df['Cars'] + df['Bicycles'] + df['Pedestrians']: the      *)
(* column is assigned, replacing one of the same name.                     *)
with_total(r) == ("Total" :> (r.Cars + r.Bicycles + r.Pedestrians)) @@ r

(* df['Hour'] = df['Time'].dt.hour                                         *)
with_hour(r) == ("Hour" :> dt_hour(r.Time)) @@ r

(* The group keys in the order groupby (sort=True) lists them.             *)
RECURSIVE sorted_keys(_)
sorted_keys(S) ==
    IF S = {} THEN <<>>
    ELSE LET m == CHOOSE x \in S : \A y \in S : x <= y
         IN  <<m>> \o sorted_keys(S \ {m})

(* Sum of the Total column over the rows of one group, in row order.       *)
RECURSIVE group_sum(_, _)
group_sum(rows, h) ==
    IF Len(rows) = 0 THEN 0
    ELSE (IF Head(rows).Hour = h THEN Head(rows).Total ELSE 0)
            + group_sum(Tail(rows), h)

(* df.groupby('Hour')['Total'].sum(): a series, one entry per hour present,*)
(* ordered by hour.                                                        *)
groupby_sum(rows) ==
    LET keys == sorted_keys({rows[i].Hour : i \in 1..Len(rows)})
    IN  [k \in 1..Len(keys) |-> [key |-> keys[k], val |-> group_sum(rows, keys[k])]]

(* Series.max(); an empty series has no maximum (nan, written -1).         *)
series_max(s) ==
    IF Len(s) = 0 THEN -1
    ELSE CHOOSE v \in {s[i].val : i \in 1..Len(s)} :
            \A j \in 1..Len(s) : s[j].val <= v


(* Variant of idxmax: the label at the last position holding the maximum.  *)
idxmax_last(s) ==
    IF Len(s) = 0 THEN [status |-> "raised", exc |-> "ValueError", label |-> -1]
    ELSE LET i == CHOOSE k \in 1..Len(s) :
                     /\ s[k].val = series_max(s)
                     /\ \A j \in (k + 1)..Len(s) : s[j].val # series_max(s)
         IN  [status |-> "ok", exc |-> "", label |-> s[i].key]

(* Variant of idxmax: an empty series yields nan instead of raising.       *)
idxmax_nan(s) ==
    IF Len(s) = 0 THEN [status |-> "ok", exc |-> "", label |-> -1]
    ELSE LET i == CHOOSE k \in 1..Len(s) :
                     /\ s[k].val = series_max(s)
                     /\ \A j \in 1..(k - 1) : s[j].val # series_max(s)
         IN  [status |-> "ok", exc |-> "", label |-> s[i].key]

(* Series.idxmax(): the label at the first position holding the maximum;   *)
(* raises on an empty series (ValueError for a numeric series).            *)
idxmax(s) ==
    IF Len(s) = 0 THEN [status |-> "raised", exc |-> "ValueError", label |-> -1]
    ELSE LET i == CHOOSE k \in 1..Len(s) :
                     /\ s[k].val = series_max(s)
                     /\ \A j \in 1..(k - 1) : s[j].val # series_max(s)
         IN  [status |-> "ok", exc |-> "", label |-> s[i].key]

(* analyze_data(df): the outcome, with df as the call leaves it (the       *)
(* columns are added in place).                                            *)
analyze_data(df) ==
    LET d1 == [df EXCEPT !.rows = [i \in 1..Len(df.rows) |-> with_total(df.rows[i])]]
    IN  IF df.timeDtype # "datetime64"
        THEN Raised("AttributeError", d1)
        ELSE LET d2 == [d1 EXCEPT !.rows = [i \in 1..Len(d1.rows) |-> with_hour(d1.rows[i])]]
                 traffic_by_hour == groupby_sum(d2.rows)
                 peak_hour == idxmax(traffic_by_hour)
                 peak_traffic == series_max(traffic_by_hour)
             IN  IF peak_hour.status # "ok"
                 THEN Raised(peak_hour.exc, d2)
                 ELSE [status |-> "ok", traffic_by_hour |-> traffic_by_hour,
                       peak_hour |-> peak_hour.label, peak_traffic |-> peak_traffic,
                       df |-> d2]

NotCalled == [status |-> "none"]

----------------------------------------------------------------------------
(* main().                                                                 *)

(* cars + bicycles + pedestrians of the three number inputs                *)
total_manual(w) == w[1] + w[2] + w[3]


(* Variant of high_traffic: the threshold itself already alerts.           *)
high_traffic_ge(total) == total >= HIGH_TRAFFIC_THRESHOLD

(* if total_manual > HIGH_TRAFFIC_THRESHOLD                                *)
high_traffic(total) == total > HIGH_TRAFFIC_THRESHOLD


(* Variant of interval_elapsed: every check passes.                        *)
interval_elapsed_always(time_diff) == time_diff >= 0

(* if time_diff > AUTO_INTERVAL_SECONDS                                    *)
interval_elapsed(time_diff) == time_diff > AUTO_INTERVAL_SECONDS


(* Variant of analysis_due: the multiple-of-24 test is left out.           *)
analysis_due_ge(n) == n >= RECORDS_PER_ANALYSIS

(* if len(df) >= RECORDS_PER_ANALYSIS and len(df) % RECORDS_PER_ANALYSIS == 0 *)
analysis_due(n) == n >= RECORDS_PER_ANALYSIS /\ n % RECORDS_PER_ANALYSIS = 0


(* Variant of after_widgets: the clear button is only looked at after a    *)
(* manual record.                                                          *)
after_widgets_skip(b) == IF b.record THEN "manual_load" ELSE "timer_init"

(* The statement main continues with after the number inputs and the alert.*)
after_widgets(b) == IF b.record THEN "manual_load" ELSE "clear"

(* The page of one pass: the alert, the banners of the record button, of   *)
(* clear_data and of auto_generate_data, and what main shows from          *)
(* `df = load_data()` on.                                                  *)
NoBanner == <<>>
BlankPage ==
    [alert |-> FALSE, manual |-> NoBanner, cleared |-> "", auto |-> NoBanner,
     loaded |-> FALSE, table |-> <<>>, info |-> FALSE, chart |-> FALSE,
     analysis |-> NotCalled]

(* Lines 92-121, on the page so far.                                       *)
render(page, df) ==
    IF Len(df.rows) = 0
    THEN [page EXCEPT !.loaded = TRUE, !.info = TRUE]
    ELSE [page EXCEPT
            !.loaded = TRUE,
            !.table = df.rows,
            !.chart = TRUE,
            !.analysis = IF analysis_due(Len(df.rows))
                         THEN LET a == analyze_data(df)
                              IN  IF a.status = "ok"
                                  THEN [status |-> "ok",
                                        traffic_by_hour |-> a.traffic_by_hour,
                                        peak_hour |-> a.peak_hour,
                                        peak_traffic |-> a.peak_traffic]
                                  ELSE [status |-> "raised"]
                         ELSE NotCalled]

(* Values offered to the number inputs (min_value=0, step=1).              *)
WidgetInputs == { <<20, 15, 15>>, <<20, 15, 16>> }

(* The draws of auto_generate_data, at the two ends of the three ranges    *)
(* randint(0, 20), randint(0, 15), randint(0, 30).                         *)
AutoDraws == { <<0, 0, 0>>, <<20, 15, 30>> }

(* Stores left by earlier runs: no file, or a file of k records.           *)
InitSizes == {0, RECORDS_PER_ANALYSIS - 1, 2 * RECORDS_PER_ANALYSIS - 1}
SeedRow == new_entry_row(0, 1, 1, 1)
InitFiles ==
    {NoFile} \cup
    { to_csv([rows |-> [i \in 1..k |-> SeedRow], timeDtype |-> "datetime64"]) : k \in InitSizes }

(* Frames handed to analyze_data on its own.                               *)
SampleRows ==
    { new_entry_row(5 * 3600, 10, 0, 0),
      new_entry_row(5 * 3600 + 1800, 2, 2, 1),
      new_entry_row(9 * 3600, 0, 7, 0),
      new_entry_row(86400 + 9 * 3600, 4, 3, 3),
      new_entry_row(23 * 3600, 0, 0, 15) }

RECURSIVE SeqsUpTo(_, _)
SeqsUpTo(S, n) ==
    IF n = 0 THEN { <<>> }
    ELSE LET shorter == SeqsUpTo(S, n - 1)
         IN  shorter \cup { Append(q, x) : q \in shorter, x \in S }

SampleFrames ==
    { [rows |-> q, timeDtype |-> "datetime64"] : q \in SeqsUpTo(SampleRows, MaxSnap) }
        \cup { EmptyFrame }

----------------------------------------------------------------------------
VARIABLES
    now,            \* the wall clock read by datetime.now()
    file,           \* CSV_FILE
    quota,          \* passes of main each session may still start
    pc,             \* each session's position in main
    inp,            \* cars, bicycles, pedestrians of the number inputs
    btn,            \* the values of the two st.button calls
    session_state,  \* st.session_state
    args,           \* add_entry's parameters
    df,             \* add_entry's local df
    new_entry,      \* add_entry's local new_entry
    view,           \* the page of the session's current (or last) pass
    fireTimes,      \* times of the timer checks that called auto_generate_data
    snap,           \* frame handed to analyze_data on its own
    out1,           \* outcome of the first call on snap
    out2            \* outcome of the second call, on the frame the first left

vars == << now, file, quota, pc, inp, btn, session_state, args,
           df, new_entry, view, fireTimes, snap, out1, out2 >>

NoArgs == <<0, 0, 0>>

InitSession ==
    /\ pc = [s \in Sessions |-> "idle"]
    /\ inp = [s \in Sessions |-> <<0, 0, 0>>]
    /\ btn = [s \in Sessions |-> [record |-> FALSE, clear |-> FALSE]]
    /\ session_state = [s \in Sessions |-> <<>>]
    /\ args = [s \in Sessions |-> NoArgs]
    /\ df = [s \in Sessions |-> EmptyFrame]
    /\ new_entry = [s \in Sessions |-> <<>>]
    /\ view = [s \in Sessions |-> BlankPage]
    /\ fireTimes = [s \in Sessions |-> <<>>]

(* One session, from the start of the time horizon.                        *)
Init ==
    /\ InitSession
    /\ now = 0
    /\ file \in InitFiles
    /\ quota = [s \in Sessions |-> IF s = 1 THEN MaxRuns ELSE 0]
    /\ snap = EmptyFrame /\ out1 = NotCalled /\ out2 = NotCalled

(* Two sessions over the same file, each running the script once, with    *)
(* time left for one timer interval.                                       *)
InitShared ==
    /\ InitSession
    /\ now = MaxTime - (AUTO_INTERVAL_SECONDS + 1)
    /\ file \in { f \in InitFiles : Len(f.lines) < RECORDS_PER_ANALYSIS }
    /\ quota = [s \in Sessions |-> 1]
    /\ snap = EmptyFrame /\ out1 = NotCalled /\ out2 = NotCalled

(* analyze_data on its own: no session runs.                               *)
InitAnalyze ==
    /\ InitSession
    /\ now = 0
    /\ file = NoFile
    /\ quota = [s \in Sessions |-> 0]
    /\ snap \in SampleFrames /\ out1 = NotCalled /\ out2 = NotCalled

----------------------------------------------------------------------------
(* Time passes between two statements: exactly the interval, or one second *)
(* more.                                                                   *)
TickSteps == {AUTO_INTERVAL_SECONDS, AUTO_INTERVAL_SECONDS + 1}

Tick ==
    /\ \E d \in TickSteps :
          /\ now + d <= MaxTime
          /\ now' = now + d
    /\ UNCHANGED << file, quota, pc, inp, btn, session_state, args,
                    df, new_entry, view, fireTimes, snap, out1, out2 >>

(* Lines 63-75: a pass starts on a fresh page; the widgets deliver their   *)
(* values and the alert is decided.  The two st.button calls are read as   *)
(* two independent booleans, as main tests them.                           *)
Start(s) ==
    /\ pc[s] = "idle"
    /\ quota[s] > 0
    /\ quota' = [quota EXCEPT ![s] = @ - 1]
    /\ \E w \in WidgetInputs, record \in BOOLEAN, clear \in BOOLEAN :
          /\ inp' = [inp EXCEPT ![s] = w]
          /\ btn' = [btn EXCEPT ![s] = [record |-> record, clear |-> clear]]
          /\ view' = [view EXCEPT ![s] =
                        [BlankPage EXCEPT !.alert = high_traffic(total_manual(w))]]
          /\ args' = [args EXCEPT ![s] = IF record THEN w ELSE @]
          /\ pc' = [pc EXCEPT ![s] = after_widgets(btn'[s])]
    /\ UNCHANGED << now, file, session_state, df, new_entry,
                    fireTimes, snap, out1, out2 >>

(* add_entry, line 26: df = load_data()                                    *)
AddLoad(s) ==
    /\ pc[s] \in {"manual_load", "auto_load"}
    /\ df' = [df EXCEPT ![s] = load_data(file).df]
    /\ file' = load_data(file).file
    /\ pc' = [pc EXCEPT ![s] = IF @ = "manual_load" THEN "manual_write" ELSE "auto_write"]
    /\ UNCHANGED << now, quota, inp, btn, session_state, args,
                    new_entry, view, fireTimes, snap, out1, out2 >>

(* add_entry, lines 27-35: build new_entry, concat, rewrite the file; then *)
(* the caller's banner (line 77 or line 60).                               *)
AddWrite(s) ==
    /\ pc[s] \in {"manual_write", "auto_write"}
    /\ LET row == new_entry_row(now, args[s][1], args[s][2], args[s][3])
       IN  /\ new_entry' = [new_entry EXCEPT ![s] = row]
           /\ df' = [df EXCEPT ![s] = concat(@, row)]
           /\ file' = add_entry_write(df[s], file, row)
    /\ view' = [view EXCEPT ![s] =
                  IF pc[s] = "manual_write" THEN [@ EXCEPT !.manual = args[s]]
                  ELSE [@ EXCEPT !.auto = args[s]]]
    /\ pc' = [pc EXCEPT ![s] = IF @ = "manual_write" THEN "clear" ELSE "timer_set"]
    /\ UNCHANGED << now, quota, inp, btn, session_state, args,
                    fireTimes, snap, out1, out2 >>

(* Lines 80-81: the clear button.                                          *)
Clear(s) ==
    /\ pc[s] = "clear"
    /\ IF btn[s].clear
       THEN /\ file' = clear_data(file).file
            /\ view' = [view EXCEPT ![s].cleared = clear_data(file).msg]
       ELSE UNCHANGED << file, view >>
    /\ pc' = [pc EXCEPT ![s] = "timer_init"]
    /\ UNCHANGED << now, quota, inp, btn, session_state, args,
                    df, new_entry, fireTimes, snap, out1, out2 >>

(* Lines 84-85: the first pass of a session sets last_auto_time.           *)
TimerInit(s) ==
    /\ pc[s] = "timer_init"
    /\ session_state' = [session_state EXCEPT ![s] =
            IF "last_auto_time" \in DOMAIN @ THEN @ ELSE ("last_auto_time" :> now)]
    /\ pc' = [pc EXCEPT ![s] = "timer_check"]
    /\ UNCHANGED << now, file, quota, inp, btn, args, df, new_entry,
                    view, fireTimes, snap, out1, out2 >>

(* Lines 87-89 and 56-58: the timer check; when the interval has elapsed   *)
(* auto_generate_data draws its three counts and calls add_entry.          *)
TimerCheck(s) ==
    /\ pc[s] = "timer_check"
    /\ LET time_diff == now - session_state[s]["last_auto_time"]
       IN  IF interval_elapsed(time_diff)
           THEN /\ \E draw \in AutoDraws : args' = [args EXCEPT ![s] = draw]
                /\ fireTimes' = [fireTimes EXCEPT ![s] = Append(@, now)]
                /\ pc' = [pc EXCEPT ![s] = "auto_load"]
           ELSE /\ pc' = [pc EXCEPT ![s] = "render"]
                /\ UNCHANGED << args, fireTimes >>
    /\ UNCHANGED << now, file, quota, inp, btn, session_state,
                    df, new_entry, view, snap, out1, out2 >>

(* Line 90: st.session_state.last_auto_time = datetime.now()               *)
TimerSet(s) ==
    /\ pc[s] = "timer_set"
    /\ session_state' = [session_state EXCEPT ![s] = ("last_auto_time" :> now)]
    /\ pc' = [pc EXCEPT ![s] = "render"]
    /\ UNCHANGED << now, file, quota, inp, btn, args, df, new_entry,
                    view, fireTimes, snap, out1, out2 >>

(* Lines 92-121: load the store and show it; main returns and the locals   *)
(* of the pass are gone.                                                   *)
Render(s) ==
    /\ pc[s] = "render"
    /\ view' = [view EXCEPT ![s] = render(@, load_data(file).df)]
    /\ file' = load_data(file).file
    /\ args' = [args EXCEPT ![s] = NoArgs]
    /\ df' = [df EXCEPT ![s] = EmptyFrame]
    /\ new_entry' = [new_entry EXCEPT ![s] = <<>>]
    /\ pc' = [pc EXCEPT ![s] = "idle"]
    /\ UNCHANGED << now, quota, inp, btn, session_state,
                    fireTimes, snap, out1, out2 >>

Next ==
    \/ Tick
    \/ \E s \in Sessions : Start(s)
    \/ \E s \in Sessions : AddLoad(s)
    \/ \E s \in Sessions : AddWrite(s)
    \/ \E s \in Sessions : Clear(s)
    \/ \E s \in Sessions : TimerInit(s)
    \/ \E s \in Sessions : TimerCheck(s)
    \/ \E s \in Sessions : TimerSet(s)
    \/ \E s \in Sessions : Render(s)

Spec == Init /\ [][Next]_vars

SpecShared == InitShared /\ [][Next]_vars

----------------------------------------------------------------------------
(* analyze_data called on its own, then again on the frame it left.        *)

AnalyzeFirst ==
    /\ out1 = NotCalled
    /\ out1' = analyze_data(snap)
    /\ UNCHANGED << now, file, quota, pc, inp, btn, session_state,
                    args, df, new_entry, view, fireTimes, snap, out2 >>

AnalyzeAgain ==
    /\ out1 # NotCalled
    /\ out2 = NotCalled
    /\ out2' = analyze_data(out1.df)
    /\ UNCHANGED << now, file, quota, pc, inp, btn, session_state,
                    args, df, new_entry, view, fireTimes, snap, out1 >>

NextAnalyze == AnalyzeFirst \/ AnalyzeAgain

SpecAnalyze == InitAnalyze /\ [][NextAnalyze]_vars

----------------------------------------------------------------------------
(* Properties.                                                             *)

Rows(f) == load_data(f).df.rows
Front(q) == SubSeq(q, 1, Len(q) - 1)
Last(q) == q[Len(q)]
AddDone(s) == pc[s] \in {"manual_write", "auto_write"} /\ pc'[s] # pc[s]
AddLoaded(s) == pc[s] \in {"manual_load", "auto_load"} /\ pc'[s] # pc[s]

(* C1: with one session, add_entry(c, b, p) followed by load_data()        *)
(* returns the store as it was when add_entry was called, in the same      *)
(* order, followed by exactly one new record whose Cars, Bicycles and      *)
(* Pedestrians are c, b and p.                                             *)
C1_AppendThenLoad ==
    [][\A s \in Sessions :
          /\ AddLoaded(s) => Rows(file') = Rows(file)
          /\ AddDone(s) =>
                /\ Len(Rows(file')) = Len(Rows(file)) + 1
                /\ Front(Rows(file')) = Rows(file)
                /\ Last(Rows(file')).Cars = args[s][1]
                /\ Last(Rows(file')).Bicycles = args[s][2]
                /\ Last(Rows(file')).Pedestrians = args[s][3]]_vars

C1_Witness ==
    /\ pc[1] = "clear"
    /\ view[1].manual = <<20, 15, 16>>
    /\ Len(Rows(file)) = RECORDS_PER_ANALYSIS
    /\ Last(Rows(file)).Pedestrians = 16
    /\ Rows(file)[1] = SeedRow

(* C2: from every store state (records, an empty store, no file),          *)
(* clear_data() followed by load_data() returns an empty sequence.         *)
C2_ClearThenLoad ==
    \A s \in Sessions :
        (pc[s] = "timer_init" /\ btn[s].clear) => Rows(file) = <<>>

C2_Witness ==
    /\ pc[1] = "timer_init"
    /\ btn[1].clear /\ ~btn[1].record
    /\ view[1].cleared = "cleared"
    /\ Len(fireTimes[1]) >= 1
    /\ Rows(file) = <<>>

(* C3: within one session, two timer checks made less than 10 seconds      *)
(* apart never both call auto_generate_data.                               *)
C3_OncePerInterval ==
    \A s \in Sessions :
        \A i, j \in 1..Len(fireTimes[s]) :
            i < j => fireTimes[s][j] - fireTimes[s][i] >= 10

C3_Witness == Len(fireTimes[1]) = 2

(* C4: a pass shows the analysis only when the number of records it loaded *)
(* is a positive multiple of 24.                                           *)
C4_AnalysisOnlyOnBatch ==
    \A s \in Sessions :
        view[s].analysis # NotCalled =>
            /\ Len(view[s].table) > 0
            /\ Len(view[s].table) % 24 = 0

C4_Witness ==
    /\ view[1].analysis # NotCalled
    /\ view[1].analysis.status = "ok"
    /\ Len(view[1].table) = 48

(* C7: the high traffic alert is on the page if and only if cars +         *)
(* bicycles + pedestrians of the number inputs is greater than 50,         *)
(* whatever the store holds.                                               *)
C7_AlertIffOver50 ==
    \A s \in Sessions :
        view[s].alert <=> (inp[s][1] + inp[s][2] + inp[s][3] > 50)

C7_Witness ==
    /\ view[1].alert
    /\ view[1].loaded
    /\ view[1].table = <<>>

(* C10: with one session, at the end of a pass in which the clear button   *)
(* was pressed the loaded store is empty when the pass did not call        *)
(* auto_generate_data, and holds exactly the generated record when it did. *)
C10_ClearThenGenerate ==
    \A s \in Sessions :
        (pc[s] = "idle" /\ view[s].loaded /\ btn[s].clear) =>
            IF view[s].auto = NoBanner
            THEN view[s].table = <<>>
            ELSE /\ Len(view[s].table) = 1
                 /\ << view[s].table[1].Cars, view[s].table[1].Bicycles,
                       view[s].table[1].Pedestrians >> = view[s].auto
                 /\ view[s].table[1].Time >= Last(fireTimes[s])

C10_Witness ==
    /\ pc[1] = "idle" /\ view[1].loaded
    /\ btn[1].clear /\ ~btn[1].record
    /\ Len(fireTimes[1]) = 2
    /\ view[1].cleared = "cleared"
    /\ view[1].auto = <<20, 15, 30>>
    /\ Len(view[1].table) = 1

(* C9: with two sessions on the same file, when both have completed one    *)
(* add_entry that loaded the same store S, the file holds S followed by    *)
(* only one of the two new records.                                        *)
C9_LostUpdate ==
    \A s, t \in Sessions :
        ( /\ s # t
          /\ pc[s] = "clear" /\ btn[s].record
          /\ pc[t] = "clear" /\ btn[t].record
          /\ Front(df[s].rows) = Front(df[t].rows) ) =>
            /\ Len(Rows(file)) = Len(Front(df[s].rows)) + 1
            /\ Front(Rows(file)) = Front(df[s].rows)
            /\ Last(Rows(file)) \in {new_entry[s], new_entry[t]}

C9_Witness ==
    /\ pc[1] = "clear" /\ btn[1].record
    /\ pc[2] = "clear" /\ btn[2].record
    /\ Front(df[1].rows) = Front(df[2].rows)
    /\ new_entry[1] # new_entry[2]
    /\ Len(Rows(file)) = RECORDS_PER_ANALYSIS

----------------------------------------------------------------------------
(* Properties of analyze_data.                                             *)

RowTotal(r) == r.Cars + r.Bicycles + r.Pedestrians
RowHour(r) == (r.Time \div 3600) % 24

RECURSIVE HourTotal(_, _, _)
HourTotal(rows, h, n) ==
    IF n = 0 THEN 0
    ELSE HourTotal(rows, h, n - 1) + (IF RowHour(rows[n]) = h THEN RowTotal(rows[n]) ELSE 0)

HoursPresent(rows) == { RowHour(rows[i]) : i \in 1..Len(rows) }

(* C5: for every non-empty record sequence analyze_data returns hourly =   *)
(* the map from each hour present to the sum of cars + bicycles +          *)
(* pedestrians over the records of that hour, peak_total = the maximum of  *)
(* that map and peak_hour = the lowest hour whose sum is that maximum.     *)
C5_PeakHour ==
    (out1 # NotCalled /\ Len(snap.rows) > 0) =>
        /\ out1.status = "ok"
        /\ LET hourly == out1.traffic_by_hour
               keys == { hourly[k].key : k \in 1..Len(hourly) }
           IN  /\ keys = HoursPresent(snap.rows)
               /\ Len(hourly) = Cardinality(keys)
               /\ \A k \in 1..Len(hourly) :
                     hourly[k].val = HourTotal(snap.rows, hourly[k].key, Len(snap.rows))
               /\ \A k \in 1..Len(hourly) : hourly[k].val <= out1.peak_traffic
               /\ \E k \in 1..Len(hourly) :
                     /\ hourly[k].key = out1.peak_hour
                     /\ hourly[k].val = out1.peak_traffic
               /\ \A k \in 1..Len(hourly) :
                     hourly[k].val = out1.peak_traffic => out1.peak_hour <= hourly[k].key

(* The example: (hour 5, total 10), (hour 5, total 5), (hour 9, total 7).  *)
C5_Witness ==
    /\ snap.rows = << new_entry_row(5 * 3600, 10, 0, 0),
                      new_entry_row(5 * 3600 + 1800, 2, 2, 1),
                      new_entry_row(9 * 3600, 0, 7, 0) >>
    /\ out1.status = "ok"
    /\ out1.traffic_by_hour = << [key |-> 5, val |-> 15], [key |-> 9, val |-> 7] >>
    /\ out1.peak_hour = 5
    /\ out1.peak_traffic = 15

(* C6, as claimed: called on an empty record sequence analyze_data fails   *)
(* with an EmptyInputError and returns no result.                          *)
C6_EmptyInputError ==
    (out1 # NotCalled /\ Len(snap.rows) = 0) =>
        /\ out1.status = "raised"
        /\ out1.exc = "EmptyInputError"

(* C6, amended: called on an empty record sequence analyze_data fails with *)
(* an exception raised inside pandas (ValueError from idxmax on the empty  *)
(* series, AttributeError from .dt when the Time column is not             *)
(* datetime-typed) and returns no hourly map, peak hour or peak total.     *)
C6_EmptyRaises ==
    (out1 # NotCalled /\ Len(snap.rows) = 0) =>
        /\ out1.status = "raised"
        /\ out1.exc \in {"ValueError", "AttributeError"}
        /\ DOMAIN out1 \cap {"traffic_by_hour", "peak_hour", "peak_traffic"} = {}

C6_Witness ==
    /\ Len(snap.rows) = 0
    /\ snap.timeDtype = "datetime64"
    /\ out1.status = "raised"
    /\ out1.exc = "ValueError"

(* C8: a second call of analyze_data, on the frame as the first call left  *)
(* it (with its Total and Hour columns), yields the same hourly map, peak  *)
(* hour and peak total as the first.                                       *)
C8_Idempotent ==
    (out1.status = "ok" /\ out2 # NotCalled) =>
        /\ out2.status = "ok"
        /\ out2.traffic_by_hour = out1.traffic_by_hour
        /\ out2.peak_hour = out1.peak_hour
        /\ out2.peak_traffic = out1.peak_traffic

C8_Witness ==
    /\ Len(snap.rows) = 3
    /\ out1.status = "ok"
    /\ \A i \in 1..3 : {"Total", "Hour"} \subseteq DOMAIN out1.df.rows[i]
    /\ out2.status = "ok"
    /\ out2.peak_traffic = 15

====
